---- MODULE Spec2Model ----
(***************************************************************************)
(* cni-ethtool: a chained CNI plugin that applies ethtool offload settings *)
(* to an interface inside a network namespace ("self") and to its veth     *)
(* peer in the host namespace ("peer").                                    *)
(*                                                                         *)
(* Three specifications share the variables below:                         *)
(*   Spec      - one invocation of cmdAdd (main.go)                        *)
(*   SpecVeth  - helpers.ExtractVeth applied to bounded inputs             *)
(*   SpecValid - EthtoolConfig.IsValid / EthtoolConfigs.IsValid applied to *)
(*               bounded inputs                                            *)
(***************************************************************************)
EXTENDS Integers, Sequences, FiniteSets, TLC

VARIABLES
    conf,               \* PluginConf.Ethtool: interface name -> EthtoolConfig
    prevResult,         \* conf.PrevResult: [present, Interfaces]
    links,              \* kernel: <<namespace, link name>> -> link attributes
    execAt,             \* where "which ethtool" succeeds: local, host, both, none
    curNS,              \* ambient network namespace of the process
    pc,                 \* position inside cmdAdd (or inside the function under test)
    pending,            \* entries of conf.Ethtool the range loop has not visited
    interfaceName,      \* loop variable of main.go:110
    namespace,          \* main.go:112
    interfaceIndex,     \* main.go:122
    selfPending,        \* parameters of GetSelf() not yet visited (main.go:140)
    peerPending,        \* parameters of peerSettings not yet visited (main.go:165)
    parameter,          \* loop variable of main.go:140
    netnsID,            \* main.go:153
    peerInterfaceName,  \* main.go:157
    hostNS,             \* namespace saved by netns.Do on entry
    closureErr,         \* error returned by the closure handed to netns.Do
    calls,              \* every ethtool.Set call made so far, in order
    veCalls,            \* every ExtractVeth call made by cmdAdd so far
    settings,           \* kernel offload flags: <<namespace, link, field>> -> on/off
    ret,                \* outcome of the invocation: none, error, emitted
    err,                \* the error returned (NoErr when none)
    printed,            \* what types.PrintResult wrote
    valid               \* last IsValid call: [fn, arg, out]

vars == <<conf, prevResult, links, execAt, curNS, pc, pending, interfaceName,
          namespace, interfaceIndex, selfPending, peerPending, parameter, netnsID,
          peerInterfaceName, hostNS, closureErr, calls, veCalls, settings,
          ret, err, printed, valid>>

(***************************************************************************)
(* Bounds of the model.                                                    *)
(***************************************************************************)
MaxConf == 2        \* entries of the ethtool configuration (Spec)
MaxIntf == 3        \* interface records of the attachment result
MaxValid == 2       \* entries of the ethtool configuration (SpecValid)

(***************************************************************************)
(* Names.                                                                  *)
(***************************************************************************)
SelfClassifier == "self"
PeerClassifier == "peer"

HostNS == "host"
Ns1 == "/run/netns/ns1"
Ns2 == "/run/netns/ns2"

ConfNameSeq == <<"eth0", "eth1", "eth2", "eth3">>
ConfNames(n) == {ConfNameSeq[i] : i \in 1..n}

NoErr == [msg |-> "nil"]
Nil == [nil |-> TRUE]

Range(f) == {f[x] : x \in DOMAIN f}

EmptyMap == [x \in {} |-> TRUE]

\* All sequences over S of length at most n without a repeated element.
InjSeqs(S, n) ==
    {s \in UNION {[1..k -> S] : k \in 0..n} :
        \A i, j \in DOMAIN s : i # j => s[i] # s[j]}

\* All orders in which a map with key set S can be iterated.
Orders(S) == {s \in [1..Cardinality(S) -> S] : Range(s) = S}

(***************************************************************************)
(* pkg/ethtool: the configuration model.                                   *)
(***************************************************************************)
\* The keys a range loop over map m visits (none for a nil map).
Keys(m) == IF m = Nil THEN {} ELSE DOMAIN m

GetSelf(e) == IF SelfClassifier \in DOMAIN e THEN e[SelfClassifier] ELSE Nil

GetPeer(e) == IF PeerClassifier \in DOMAIN e THEN e[PeerClassifier] ELSE Nil

\* IsValid without the tests of len(e): any map holding the self key passes.
EthtoolConfigIsValidNoLen(e) == SelfClassifier \in DOMAIN e

EthtoolConfigIsValid(e) ==
    IF Cardinality(DOMAIN e) = 2
    THEN SelfClassifier \in DOMAIN e /\ PeerClassifier \in DOMAIN e
    ELSE IF Cardinality(DOMAIN e) = 1
    THEN SelfClassifier \in DOMAIN e
    ELSE FALSE

\* The range loop returning the verdict on the first entry it visits.
IsValidFirstOnly(es, order, i) ==
    IF i > Len(order) THEN TRUE
    ELSE (Cardinality(DOMAIN es[order[i]]) \in {1, 2}
          /\ SelfClassifier \in DOMAIN es[order[i]]
          /\ DOMAIN es[order[i]] \subseteq {SelfClassifier, PeerClassifier})

\* The range loop of EthtoolConfigs.IsValid, visiting the entries in `order`
\* from position i on; the first invalid entry returns false.
RECURSIVE IsValidFrom(_, _, _)
IsValidFrom(es, order, i) ==
    IF i > Len(order) THEN TRUE
    ELSE IF ~EthtoolConfigIsValid(es[order[i]]) THEN FALSE
    ELSE IsValidFrom(es, order, i + 1)

\* EthtoolConfigs.IsValid that rejects a configuration without entries.
EthtoolConfigsIsValidNonEmpty(es, order) ==
    order # <<>> /\ IsValidFrom(es, order, 1)

EthtoolConfigsIsValid(es, order) == IsValidFrom(es, order, 1)

\* Set with the interface and the field exchanged.
SetArgsSwapped(iface, field, enable) ==
    <<"-K", field, iface, IF enable THEN "on" ELSE "off">>

\* Set with the two words exchanged.
SetArgsInverted(iface, field, enable) ==
    <<"-K", iface, field, IF enable THEN "off" ELSE "on">>

\* Set: the argument vector handed to the ethtool command.
SetArgs(iface, field, enable) ==
    <<"-K", iface, field, IF enable THEN "on" ELSE "off">>

(***************************************************************************)
(* pkg/helpers.                                                            *)
(***************************************************************************)
EthtoolPath == "/usr/sbin/ethtool"

\* FindExecutable that looks under /host first.
FindExecutableHostFirst(name, at) ==
    IF at \in {"host", "both"}
    THEN [bin |-> <<"chroot", "/host", EthtoolPath>>, err |-> NoErr]
    ELSE IF at = "local"
    THEN [bin |-> <<EthtoolPath>>, err |-> NoErr]
    ELSE [bin |-> <<>>, err |-> [msg |-> "could not find executable", name |-> name]]

\* FindExecutable that takes the local path for granted.
FindExecutableAssumeLocal(name, at) ==
    IF at = "host"
    THEN [bin |-> <<"chroot", "/host", EthtoolPath>>, err |-> NoErr]
    ELSE [bin |-> <<EthtoolPath>>, err |-> NoErr]

\* FindExecutable under the environment `at`: [bin, err].
FindExecutable(name, at) ==
    IF at \in {"local", "both"}
    THEN [bin |-> <<EthtoolPath>>, err |-> NoErr]
    ELSE IF at = "host"
    THEN [bin |-> <<"chroot", "/host", EthtoolPath>>, err |-> NoErr]
    ELSE [bin |-> <<>>, err |-> [msg |-> "could not find executable", name |-> name]]

\* RunCommand: [argv, ran, err]; cmdOk is the exit status of the command.
RunCommand(c, parameters, at, cmdOk) ==
    LET f == FindExecutable(c, at) IN
    IF f.err # NoErr
    THEN [argv |-> <<>>, ran |-> FALSE, err |-> f.err]
    ELSE [argv |-> f.bin \o parameters, ran |-> TRUE,
          err |-> IF cmdOk THEN NoErr
                  ELSE [msg |-> "exit status 1", name |-> c]]

\* ethtool.Set
Set(iface, field, enable, at, cmdOk) ==
    RunCommand("ethtool", SetArgs(iface, field, enable), at, cmdOk)

\* ExtractInterfaceNamespace: [namespace, err], scanning from position i.
RECURSIVE ExtractInterfaceNamespaceFrom(_, _, _)
ExtractInterfaceNamespaceFrom(interfaces, name, i) ==
    IF i > Len(interfaces)
    THEN [namespace |-> "",
          err |-> [msg |-> "could not find namespaced interface", name |-> name]]
    ELSE IF interfaces[i].Name = name
    THEN IF interfaces[i].Sandbox = ""
         THEN [namespace |-> "",
               err |-> [msg |-> "expected interface to be inside a namespace",
                        name |-> interfaces[i].Name]]
         ELSE [namespace |-> interfaces[i].Sandbox, err |-> NoErr]
    ELSE ExtractInterfaceNamespaceFrom(interfaces, name, i + 1)

ExtractInterfaceNamespace(interfaces, name) ==
    ExtractInterfaceNamespaceFrom(interfaces, name, 1)

\* netlink.LinkByName in namespace ns of kernel state k.
HasLink(k, ns, name) == <<ns, name>> \in DOMAIN k

LinkAttrs(k, ns, name) == k[<<ns, name>>]

\* GetInterfaceIndex reading the index of the peer instead of the link's own.
GetInterfaceIndexOfParent(k, ns, name) ==
    IF <<ns, name>> \in DOMAIN k
    THEN [index |-> k[<<ns, name>>].ParentIndex, err |-> NoErr]
    ELSE [index |-> -1, err |-> [msg |-> "Link not found", name |-> name]]

\* GetInterfaceIndex: [index, err].
GetInterfaceIndex(k, ns, name) ==
    IF HasLink(k, ns, name)
    THEN [index |-> LinkAttrs(k, ns, name).Index, err |-> NoErr]
    ELSE [index |-> -1, err |-> [msg |-> "Link not found", name |-> name]]

\* A candidate test that leaves out the comparison of NetNsID.
VethMatchesAnyNetNs(k, ns, intf, id, peerIndex) ==
    /\ intf.Sandbox = ""
    /\ <<ns, intf.Name>> \in DOMAIN k
    /\ k[<<ns, intf.Name>>].ParentIndex = peerIndex

\* One candidate of ExtractVeth's loop: does intf pass all four tests?
VethMatches(k, ns, intf, id, peerIndex) ==
    /\ intf.Sandbox = ""
    /\ HasLink(k, ns, intf.Name)
    /\ LinkAttrs(k, ns, intf.Name).ParentIndex = peerIndex
    /\ LinkAttrs(k, ns, intf.Name).NetNsID = id

\* A search that gives up with an error at the first host candidate that
\* LinkByName cannot resolve.
RECURSIVE ExtractVethFromStrict(_, _, _, _, _, _)
ExtractVethFromStrict(k, ns, interfaces, id, peerIndex, i) ==
    IF i > Len(interfaces)
    THEN [name |-> "",
          err |-> [msg |-> "could not find veth peer",
                   netnsID |-> id, peerInterfaceIndex |-> peerIndex]]
    ELSE IF interfaces[i].Sandbox = "" /\ ~HasLink(k, ns, interfaces[i].Name)
    THEN [name |-> "", err |-> [msg |-> "Link not found", name |-> interfaces[i].Name]]
    ELSE IF VethMatches(k, ns, interfaces[i], id, peerIndex)
    THEN [name |-> interfaces[i].Name, err |-> NoErr]
    ELSE ExtractVethFromStrict(k, ns, interfaces, id, peerIndex, i + 1)

\* A search that keeps looking after a match and returns the last one.
RECURSIVE ExtractVethFromLast(_, _, _, _, _, _)
ExtractVethFromLast(k, ns, interfaces, id, peerIndex, i) ==
    IF i > Len(interfaces)
    THEN [name |-> "",
          err |-> [msg |-> "could not find veth peer",
                   netnsID |-> id, peerInterfaceIndex |-> peerIndex]]
    ELSE LET rest == ExtractVethFromLast(k, ns, interfaces, id, peerIndex, i + 1)
         IN
         IF rest.err = NoErr THEN rest
         ELSE IF VethMatches(k, ns, interfaces[i], id, peerIndex)
         THEN [name |-> interfaces[i].Name, err |-> NoErr]
         ELSE rest

\* A search that returns after the first record it looks at.
ExtractVethFromOneRecord(k, ns, interfaces, id, peerIndex, i) ==
    IF i <= Len(interfaces) /\ VethMatches(k, ns, interfaces[i], id, peerIndex)
    THEN [name |-> interfaces[i].Name, err |-> NoErr]
    ELSE [name |-> "",
          err |-> [msg |-> "could not find veth peer",
                   netnsID |-> id, peerInterfaceIndex |-> peerIndex]]

\* ExtractVeth, run in namespace ns: [name, err], scanning from position i.
RECURSIVE ExtractVethFrom(_, _, _, _, _, _)
ExtractVethFrom(k, ns, interfaces, id, peerIndex, i) ==
    IF i > Len(interfaces)
    THEN [name |-> "",
          err |-> [msg |-> "could not find veth peer",
                   netnsID |-> id, peerInterfaceIndex |-> peerIndex]]
    ELSE IF VethMatches(k, ns, interfaces[i], id, peerIndex)
    THEN [name |-> interfaces[i].Name, err |-> NoErr]
    ELSE ExtractVethFrom(k, ns, interfaces, id, peerIndex, i + 1)

\* A search that falls back to the first interface without a sandbox.
ExtractVethFirstHost(k, ns, interfaces, id, peerIndex) ==
    LET r == ExtractVethFrom(k, ns, interfaces, id, peerIndex, 1)
        hosts == {i \in DOMAIN interfaces : interfaces[i].Sandbox = ""}
    IN
    IF r.err = NoErr \/ hosts = {} THEN r
    ELSE [name |-> interfaces[CHOOSE i \in hosts : \A j \in hosts : i <= j].Name,
          err |-> NoErr]

ExtractVeth(k, ns, interfaces, id, peerIndex) ==
    ExtractVethFrom(k, ns, interfaces, id, peerIndex, 1)

\* The kernel's id of each namespace, as netlink.GetNetNsIdByFd reports it.
NetNsIdOf == (Ns1 :> 0) @@ (Ns2 :> 1)

(***************************************************************************)
(* Inputs of one invocation (Spec).                                        *)
(***************************************************************************)
Tx == "tx-checksumming"
Rx == "rx-checksumming"

\* The EthtoolConfig values an entry may hold: self only, self and peer with
\* two parameters each, and peer only (invalid).
ConfigChoices ==
    { (SelfClassifier :> (Tx :> FALSE)),
      (SelfClassifier :> ((Tx :> FALSE) @@ (Rx :> TRUE))) @@
          (PeerClassifier :> ((Tx :> TRUE) @@ (Rx :> FALSE))),
      (PeerClassifier :> (Rx :> TRUE)) }

Confs == UNION {[D -> ConfigChoices] : D \in SUBSET ConfNames(MaxConf)}

Intf(name, sandbox) == [Name |-> name, Sandbox |-> sandbox]

MainRecords ==
    { Intf("eth0", Ns1), Intf("eth1", Ns2), Intf("eth1", ""),
      Intf("vethA", ""), Intf("vethB", "") }

PrevResults ==
    {[present |-> FALSE, Interfaces |-> <<>>]} \cup
    {[present |-> TRUE, Interfaces |-> s] : s \in InjSeqs(MainRecords, MaxIntf)}

Attrs(index, parent, nsid) ==
    [Index |-> index, ParentIndex |-> parent, NetNsID |-> nsid]

\* Two pods whose in-namespace interfaces have the same index 2: the host
\* ends differ only in the netns id of their peer.
BaseLinks ==
    (<<HostNS, "vethA">> :> Attrs(5, 2, 0)) @@
    (<<HostNS, "vethB">> :> Attrs(6, 2, 1)) @@
    (<<Ns1, "eth0">> :> Attrs(2, 5, 0)) @@
    (<<Ns2, "eth1">> :> Attrs(2, 6, 0))

\* The same two pods with different indexes inside their namespaces.
DistinctLinks ==
    (<<HostNS, "vethA">> :> Attrs(5, 2, 0)) @@
    (<<HostNS, "vethB">> :> Attrs(6, 3, 1)) @@
    (<<Ns1, "eth0">> :> Attrs(2, 5, 0)) @@
    (<<Ns2, "eth1">> :> Attrs(3, 6, 0))

Without(k, gone) == [x \in (DOMAIN k) \ gone |-> k[x]]

\* The kernel states of Spec: all links there (with and without the index
\* collision), and the in-namespace end of the first pod gone.
Worlds ==
    {BaseLinks, DistinctLinks, Without(BaseLinks, {<<Ns1, "eth0">>})}

NoValid == [fn |-> "none", arg |-> <<>>, out |-> FALSE]

Init ==
    /\ conf \in Confs
    /\ prevResult \in PrevResults
    /\ links \in Worlds
    /\ execAt \in {"local", "host", "none"}
    /\ curNS = HostNS
    /\ pc = "start"
    /\ pending = {}
    /\ interfaceName = ""
    /\ namespace = ""
    /\ interfaceIndex = 0
    /\ selfPending = {}
    /\ peerPending = {}
    /\ parameter = ""
    /\ netnsID = 0
    /\ peerInterfaceName = ""
    /\ hostNS = HostNS
    /\ closureErr = NoErr
    /\ calls = <<>>
    /\ veCalls = <<>>
    /\ settings = EmptyMap
    /\ ret = "none"
    /\ err = NoErr
    /\ printed = <<>>
    /\ valid = NoValid

inputs == <<conf, prevResult, links, execAt>>
locals == <<pending, interfaceName, namespace, interfaceIndex, selfPending,
            peerPending, parameter, netnsID, peerInterfaceName>>
doVars == <<hostNS, closureErr>>
effects == <<calls, veCalls, settings>>

(***************************************************************************)
(* cmdAdd, step by step.                                                   *)
(***************************************************************************)
\* return e
Fail(e) == pc' = "done" /\ ret' = "error" /\ err' = e /\ printed' = printed

\* no return yet: go on at position p
Goto(p) == pc' = p /\ UNCHANGED <<ret, err, printed>>

\* parseConfig without the call of IsValid.
ParseConfigNoIsValid ==
    /\ pc = "start"
    /\ \E parsed \in {"ok", "bad json", "bad prevResult"} :
         IF parsed = "bad json"
         THEN Fail([msg |-> "failed to parse network configuration"])
         ELSE IF parsed = "bad prevResult"
         THEN Fail([msg |-> "could not parse prevResult"])
         ELSE Goto("logger")
    /\ UNCHANGED <<inputs, locals, doVars, effects, curNS, valid>>

\* main.go:67-90, parseConfig: stdin may fail to unmarshal, the previous
\* result may fail to parse, the ethtool configuration may be invalid.
ParseConfig ==
    /\ pc = "start"
    /\ \E parsed \in {"ok", "bad json", "bad prevResult"},
          order \in Orders(DOMAIN conf) :
         IF parsed = "bad json"
         THEN Fail([msg |-> "failed to parse network configuration"])
         ELSE IF parsed = "bad prevResult"
         THEN Fail([msg |-> "could not parse prevResult"])
         ELSE IF ~EthtoolConfigsIsValid(conf, order)
         THEN Fail([msg |-> "provided ethtool configuration is not valid",
                    conf |-> conf])
         ELSE Goto("logger")
    /\ UNCHANGED <<inputs, locals, doVars, effects, curNS, valid>>

\* main.go:91-95, newCustomLogger: the log file may fail to open
NewLogger ==
    /\ pc = "logger"
    /\ \E opened \in BOOLEAN :
         IF opened THEN Goto("chained")
         ELSE Fail([msg |-> "could not write to file"])
    /\ UNCHANGED <<inputs, locals, doVars, effects, curNS, valid>>

\* The conversion of the result without the test of PrevResult.
CheckChainedNoNilTest ==
    /\ pc = "chained"
    /\ \E converted \in BOOLEAN :
         IF ~converted
         THEN Fail([msg |-> "failed to convert prevResult"]) /\ pending' = pending
         ELSE Goto("loop") /\ pending' = DOMAIN conf
    /\ UNCHANGED <<inputs, interfaceName, namespace, interfaceIndex, selfPending,
                   peerPending, parameter, netnsID, peerInterfaceName, doVars,
                   effects, curNS, valid>>

\* main.go:97-107: the chained-plugin test and the conversion of the result
CheckChained ==
    /\ pc = "chained"
    /\ \E converted \in BOOLEAN :
         IF ~prevResult.present
         THEN Fail([msg |-> "must be called as chained plugin"]) /\ pending' = pending
         ELSE IF ~converted
         THEN Fail([msg |-> "failed to convert prevResult"]) /\ pending' = pending
         ELSE Goto("loop") /\ pending' = DOMAIN conf
    /\ UNCHANGED <<inputs, interfaceName, namespace, interfaceIndex, selfPending,
                   peerPending, parameter, netnsID, peerInterfaceName, doVars,
                   effects, curNS, valid>>

\* main.go:110-119: the next entry of the range loop, its namespace and netns
NextEntry ==
    /\ pc = "loop"
    /\ \E n \in pending, opened \in BOOLEAN :
         LET r == ExtractInterfaceNamespace(prevResult.Interfaces, n) IN
         /\ pending' = pending \ {n}
         /\ interfaceName' = n
         /\ namespace' = r.namespace
         /\ IF r.err # NoErr THEN Fail(r.err)
            ELSE IF ~opened
            THEN Fail([msg |-> "failed to Statfs", namespace |-> r.namespace])
            ELSE Goto("index_do")
    /\ UNCHANGED <<inputs, interfaceIndex, selfPending, peerPending, parameter,
                   netnsID, peerInterfaceName, doVars, effects, curNS, valid>>

\* netns.Do on entry: save the current namespace and switch to target
\* (entered = FALSE: the switch failed and the closure is not run).
NsDoEnter(target, entered) ==
    /\ hostNS' = curNS
    /\ curNS' = IF entered THEN target ELSE curNS

\* A scoped entry that does not switch back.
NsAfterDoStay(saved, inside) == inside

\* netns.Do on exit: the namespace the caller is left in.
NsAfterDo(saved, inside) == saved

\* main.go:123, netns.Do entered
IndexDo ==
    /\ pc = "index_do"
    /\ \E entered \in BOOLEAN :
         /\ NsDoEnter(namespace, entered)
         /\ IF entered THEN Goto("index_closure")
            ELSE Fail([msg |-> "error switching to ns", namespace |-> namespace])
    /\ UNCHANGED <<inputs, locals, closureErr, effects, valid>>

\* main.go:124-129, the closure
IndexClosure ==
    /\ pc = "index_closure"
    /\ LET r == GetInterfaceIndex(links, curNS, interfaceName) IN
       /\ interfaceIndex' = r.index
       /\ closureErr' = r.err
    /\ Goto("index_exit")
    /\ UNCHANGED <<inputs, pending, interfaceName, namespace, selfPending,
                   peerPending, parameter, netnsID, peerInterfaceName, hostNS,
                   effects, curNS, valid>>

\* netns.Do returns and, after a successful lookup, is entered once more.
IndexExitAgain ==
    /\ pc = "index_exit"
    /\ curNS' = NsAfterDo(hostNS, curNS)
    /\ IF closureErr # NoErr THEN Fail(closureErr) ELSE Goto("index_do")
    /\ UNCHANGED <<inputs, locals, doVars, effects, valid>>

\* netns.Do returns and the error of the index lookup is dropped.
IndexExitContinue ==
    /\ pc = "index_exit"
    /\ curNS' = NsAfterDo(hostNS, curNS)
    /\ Goto("self")
    /\ selfPending' = Keys(GetSelf(conf[interfaceName]))
    /\ UNCHANGED <<inputs, pending, interfaceName, namespace, interfaceIndex,
                   peerPending, parameter, netnsID, peerInterfaceName, doVars,
                   effects, valid>>

\* main.go:130-133, netns.Do returns
IndexExit ==
    /\ pc = "index_exit"
    /\ curNS' = NsAfterDo(hostNS, curNS)
    /\ IF closureErr # NoErr
       THEN Fail(closureErr) /\ selfPending' = selfPending
       ELSE Goto("self") /\ selfPending' = Keys(GetSelf(conf[interfaceName]))
    /\ UNCHANGED <<inputs, pending, interfaceName, namespace, interfaceIndex,
                   peerPending, parameter, netnsID, peerInterfaceName, doVars,
                   effects, valid>>

\* The next self parameter, set without entering the namespace.
SelfDoNoEnter ==
    /\ pc = "self"
    /\ selfPending # {}
    /\ \E p \in selfPending :
         /\ parameter' = p
         /\ selfPending' = selfPending \ {p}
    /\ hostNS' = curNS
    /\ Goto("self_closure")
    /\ UNCHANGED <<inputs, pending, interfaceName, namespace, interfaceIndex,
                   peerPending, netnsID, peerInterfaceName, closureErr, effects,
                   curNS, valid>>

\* main.go:140-143: the next self parameter, netns.Do entered
SelfDo ==
    /\ pc = "self"
    /\ selfPending # {}
    /\ \E p \in selfPending, entered \in BOOLEAN :
         /\ parameter' = p
         /\ selfPending' = selfPending \ {p}
         /\ NsDoEnter(namespace, entered)
         /\ IF entered THEN Goto("self_closure")
            ELSE Fail([msg |-> "error switching to ns", namespace |-> namespace])
    /\ UNCHANGED <<inputs, pending, interfaceName, namespace, interfaceIndex,
                   peerPending, netnsID, peerInterfaceName, closureErr, effects,
                   valid>>

\* main.go:140, the self loop is over
SelfDone ==
    /\ pc = "self"
    /\ selfPending = {}
    /\ Goto("peer")
    /\ UNCHANGED <<inputs, locals, doVars, effects, curNS, valid>>

\* The call ethtool.Set(iface, field, enable) of kind self or peer made in the
\* ambient namespace; r is what it returned.
SetCall(kind, iface, field, enable, r) ==
    [kind |-> kind, entry |-> interfaceName, iface |-> iface, field |-> field,
     enable |-> enable, ns |-> curNS, argv |-> r.argv, ran |-> r.ran, err |-> r.err]

\* A command that flips a field which already has the requested value.
AppliedToggle(s, ns, argv) ==
    LET n == Len(argv)
        k == <<ns, argv[n - 2], argv[n - 1]>>
    IN
    IF k \in DOMAIN s /\ s[k] = argv[n]
    THEN [s EXCEPT ![k] = IF @ = "on" THEN "off" ELSE "on"]
    ELSE (k :> argv[n]) @@ s

\* A command that leaves the other fields of its interface at their defaults.
AppliedExclusive(s, ns, argv) ==
    LET n == Len(argv)
        others == {k \in DOMAIN s : ~(k[1] = ns /\ k[2] = argv[n - 2])}
    IN
    (<<ns, argv[n - 2], argv[n - 1]>> :> argv[n]) @@ [k \in others |-> s[k]]

\* The kernel's offload flags after a command with argument vector argv
\* (..., "-K", iface, field, on/off) succeeded in namespace ns.
Applied(s, ns, argv) ==
    LET n == Len(argv) IN
    (<<ns, argv[n - 2], argv[n - 1]>> :> argv[n]) @@ s

\* ethtool.Set and its effect; cmdOk is possible only on an existing link.
DoSet(kind, iface, field, enable, cmdOk) ==
    LET r == Set(iface, field, enable, execAt, cmdOk) IN
    /\ cmdOk => HasLink(links, curNS, iface)
    /\ calls' = Append(calls, SetCall(kind, iface, field, enable, r))
    /\ settings' = IF r.err = NoErr THEN Applied(settings, curNS, r.argv)
                   ELSE settings

\* main.go:144-145, the closure
SelfClosure ==
    /\ pc = "self_closure"
    /\ \E cmdOk \in BOOLEAN :
         /\ DoSet("self", interfaceName, parameter,
                  GetSelf(conf[interfaceName])[parameter], cmdOk)
         /\ closureErr' = Set(interfaceName, parameter,
                              GetSelf(conf[interfaceName])[parameter],
                              execAt, cmdOk).err
    /\ Goto("self_exit")
    /\ UNCHANGED <<inputs, locals, hostNS, veCalls, curNS, valid>>

\* netns.Do returns; on an error the settings applied so far are put back.
SelfExitRollback ==
    /\ pc = "self_exit"
    /\ curNS' = NsAfterDo(hostNS, curNS)
    /\ IF closureErr # NoErr
       THEN Fail(closureErr) /\ settings' = EmptyMap
       ELSE Goto("self") /\ settings' = settings
    /\ UNCHANGED <<inputs, locals, doVars, calls, veCalls, valid>>

\* netns.Do returns and its error is dropped.
SelfExitContinue ==
    /\ pc = "self_exit"
    /\ curNS' = hostNS
    /\ Goto("self")
    /\ UNCHANGED <<inputs, locals, doVars, effects, valid>>

\* main.go:146-149, netns.Do returns
SelfExit ==
    /\ pc = "self_exit"
    /\ curNS' = NsAfterDo(hostNS, curNS)
    /\ IF closureErr # NoErr THEN Fail(closureErr) ELSE Goto("self")
    /\ UNCHANGED <<inputs, locals, doVars, effects, valid>>

\* FindNetNSID: [id, err]; ok = FALSE when the path cannot be opened or the
\* kernel query fails.
FindNetNSID(netnsPath, ok) ==
    IF ok THEN [id |-> NetNsIdOf[netnsPath], err |-> NoErr]
    ELSE [id |-> -1, err |-> [msg |-> "could not open file for reading",
                               namespace |-> netnsPath]]

\* The netns id and the veth peer are looked up whether or not the entry has
\* peer settings.
PeerResolveAlways ==
    /\ pc = "peer"
    /\ \E ok \in BOOLEAN :
         LET peerSettings == GetPeer(conf[interfaceName])
             f == FindNetNSID(namespace, ok)
             v == ExtractVeth(links, curNS, prevResult.Interfaces, f.id,
                              interfaceIndex)
         IN
         IF f.err # NoErr
         THEN /\ Fail([msg |-> "could not find namespace id for netns",
                       namespace |-> namespace, err |-> f.err])
              /\ netnsID' = f.id
              /\ UNCHANGED <<peerInterfaceName, peerPending, veCalls>>
         ELSE /\ netnsID' = f.id
              /\ peerInterfaceName' = v.name
              /\ veCalls' = Append(veCalls,
                     [ns |-> curNS, netnsID |-> f.id,
                      peerInterfaceIndex |-> interfaceIndex,
                      interfaceName |-> interfaceName,
                      namespace |-> namespace, name |-> v.name,
                      err |-> v.err])
              /\ IF v.err # NoErr
                 THEN /\ Fail([msg |-> "could not find veth peer for interface",
                               interfaceName |-> interfaceName,
                               namespace |-> namespace, err |-> v.err])
                      /\ peerPending' = peerPending
                 ELSE /\ Goto("peer_set")
                      /\ peerPending' = Keys(peerSettings)
    /\ UNCHANGED <<inputs, pending, interfaceName, namespace, interfaceIndex,
                   selfPending, parameter, doVars, calls, settings, curNS, valid>>

\* main.go:152-163: the peer settings, the netns id and the veth peer
PeerResolve ==
    /\ pc = "peer"
    /\ LET peerSettings == GetPeer(conf[interfaceName]) IN
       IF peerSettings = Nil
       THEN /\ Goto("loop")
            /\ UNCHANGED <<netnsID, peerInterfaceName, peerPending, veCalls>>
       ELSE \E ok \in BOOLEAN :
            LET f == FindNetNSID(namespace, ok)
                v == ExtractVeth(links, curNS, prevResult.Interfaces, f.id,
                                 interfaceIndex)
            IN
            IF f.err # NoErr
            THEN /\ Fail([msg |-> "could not find namespace id for netns",
                          namespace |-> namespace, err |-> f.err])
                 /\ netnsID' = f.id
                 /\ UNCHANGED <<peerInterfaceName, peerPending, veCalls>>
            ELSE /\ netnsID' = f.id
                 /\ peerInterfaceName' = v.name
                 /\ veCalls' = Append(veCalls,
                        [ns |-> curNS, netnsID |-> f.id,
                         peerInterfaceIndex |-> interfaceIndex,
                         interfaceName |-> interfaceName,
                         namespace |-> namespace, name |-> v.name,
                         err |-> v.err])
                 /\ IF v.err # NoErr
                    THEN /\ Fail([msg |-> "could not find veth peer for interface",
                                  interfaceName |-> interfaceName,
                                  namespace |-> namespace, err |-> v.err])
                         /\ peerPending' = peerPending
                    ELSE /\ Goto("peer_set")
                         /\ peerPending' = Keys(peerSettings)
    /\ UNCHANGED <<inputs, pending, interfaceName, namespace, interfaceIndex,
                   selfPending, parameter, doVars, calls, settings, curNS, valid>>

\* main.go:165-171: the next peer parameter, set in the ambient namespace
PeerSet ==
    /\ pc = "peer_set"
    /\ peerPending # {}
    /\ \E p \in peerPending, cmdOk \in BOOLEAN :
         LET setting == GetPeer(conf[interfaceName])[p]
             r == Set(peerInterfaceName, p, setting, execAt, cmdOk)
         IN
         /\ parameter' = p
         /\ peerPending' = peerPending \ {p}
         /\ DoSet("peer", peerInterfaceName, p, setting, cmdOk)
         /\ IF r.err # NoErr THEN Fail(r.err) ELSE Goto("peer_set")
    /\ UNCHANGED <<inputs, pending, interfaceName, namespace, interfaceIndex,
                   selfPending, netnsID, peerInterfaceName, doVars, veCalls,
                   curNS, valid>>

\* main.go:165, the peer loop is over
PeerDone ==
    /\ pc = "peer_set"
    /\ peerPending = {}
    /\ Goto("loop")
    /\ UNCHANGED <<inputs, locals, doVars, effects, curNS, valid>>

\* The result is emitted with the interface records re-sandboxed.
PrintResultResandboxed ==
    /\ pc = "loop"
    /\ pending = {}
    /\ \E written \in BOOLEAN :
         IF written
         THEN /\ pc' = "done"
              /\ ret' = "emitted"
              /\ printed' = [prevResult EXCEPT !.Interfaces =
                                [i \in DOMAIN @ |-> Intf(@[i].Name, "")]]
              /\ err' = err
         ELSE Fail([msg |-> "failed to print result"])
    /\ UNCHANGED <<inputs, locals, doVars, effects, curNS, valid>>

\* main.go:174-176: the range loop is over, the result is passed through
\* (types.PrintResult may fail to convert or write it)
PrintResult ==
    /\ pc = "loop"
    /\ pending = {}
    /\ \E written \in BOOLEAN :
         IF written
         THEN /\ pc' = "done"
              /\ ret' = "emitted"
              /\ printed' = prevResult
              /\ err' = err
         ELSE Fail([msg |-> "failed to print result"])
    /\ UNCHANGED <<inputs, locals, doVars, effects, curNS, valid>>

Next ==
    \/ ParseConfig
    \/ NewLogger
    \/ CheckChained
    \/ NextEntry
    \/ IndexDo
    \/ IndexClosure
    \/ IndexExit
    \/ SelfDo
    \/ SelfDone
    \/ SelfClosure
    \/ SelfExit
    \/ PeerResolve
    \/ PeerSet
    \/ PeerDone
    \/ PrintResult

Spec == Init /\ [][Next]_vars

(***************************************************************************)
(* SpecVeth: helpers.ExtractVeth on bounded interface lists and kernel     *)
(* states, called from the host namespace.                                 *)
(***************************************************************************)
VethRecords ==
    { Intf("vethA", ""), Intf("vethB", ""), Intf("vethA", Ns1), Intf("eth0", Ns1) }

VethLists == UNION {[1..k -> VethRecords] : k \in 0..MaxIntf}

\* The index of each host link.
HostIndexOf == ("vethA" :> 5) @@ ("vethB" :> 6)

\* What LinkByName may report for a host link besides its index: a parent
\* index and a netns id.
VethKeys == [ParentIndex : {2, 3}, NetNsID : {0, 1}]

\* The kernel states of SpecVeth: any subset H of the host links exists, each
\* with any parent index and netns id.
VethWorlds ==
    UNION { { [x \in {<<HostNS, h>> : h \in H} |->
                 Attrs(HostIndexOf[x[2]], f[x[2]].ParentIndex, f[x[2]].NetNsID)]
              : f \in [H -> VethKeys] }
            : H \in SUBSET {"vethA", "vethB"} }

InitVeth ==
    /\ conf = EmptyMap
    /\ prevResult \in {[present |-> TRUE, Interfaces |-> s] : s \in VethLists}
    /\ links \in VethWorlds
    /\ execAt = "none"
    /\ curNS = HostNS
    /\ pc = "veth_call"
    /\ pending = {}
    /\ interfaceName = ""
    /\ namespace = ""
    /\ interfaceIndex \in {2, 3}
    /\ selfPending = {}
    /\ peerPending = {}
    /\ parameter = ""
    /\ netnsID \in {0, 1}
    /\ peerInterfaceName = ""
    /\ hostNS = HostNS
    /\ closureErr = NoErr
    /\ calls = <<>>
    /\ veCalls = <<>>
    /\ settings = EmptyMap
    /\ ret = "none"
    /\ err = NoErr
    /\ printed = <<>>
    /\ valid = NoValid

\* peerInterfaceName, err := ExtractVeth(interfaces, netnsID, interfaceIndex)
ExtractVethCall ==
    /\ pc = "veth_call"
    /\ LET v == ExtractVeth(links, curNS, prevResult.Interfaces, netnsID,
                            interfaceIndex) IN
       /\ peerInterfaceName' = v.name
       /\ err' = v.err
       /\ ret' = IF v.err = NoErr THEN "ok" ELSE "error"
    /\ pc' = "veth_done"
    /\ UNCHANGED <<inputs, pending, interfaceName, namespace, interfaceIndex,
                   selfPending, peerPending, parameter, netnsID, doVars, effects,
                   curNS, printed, valid>>

\* ExtractVeth called again with the same records in another order
ExtractVethPermutedCall ==
    /\ pc = "veth_done"
    /\ \E o \in Orders(DOMAIN prevResult.Interfaces) :
         LET permuted == [i \in DOMAIN o |-> prevResult.Interfaces[o[i]]] IN
         valid' = [fn |-> "ExtractVeth", arg |-> permuted,
                   out |-> ExtractVeth(links, curNS, permuted, netnsID,
                                       interfaceIndex)]
    /\ pc' = "veth_again"
    /\ UNCHANGED <<inputs, locals, doVars, effects, curNS, ret, err, printed>>

NextVeth ==
    \/ ExtractVethCall
    \/ ExtractVethPermutedCall

SpecVeth == InitVeth /\ [][NextVeth]_vars

(***************************************************************************)
(* SpecValid: EthtoolConfig.IsValid and EthtoolConfigs.IsValid on bounded  *)
(* configurations.                                                         *)
(***************************************************************************)
ClassifierKeys == {SelfClassifier, PeerClassifier, "other"}

ParamMaps == {EmptyMap, (Tx :> TRUE)}

AllConfigs == UNION {[K -> ParamMaps] : K \in SUBSET ClassifierKeys}

ValidConfs == UNION {[D -> AllConfigs] : D \in SUBSET ConfNames(MaxValid)}

InitValid ==
    /\ conf \in ValidConfs
    /\ prevResult = [present |-> FALSE, Interfaces |-> <<>>]
    /\ links = EmptyMap
    /\ execAt = "none"
    /\ curNS = HostNS
    /\ pc = "valid_call"
    /\ pending = {}
    /\ interfaceName = ""
    /\ namespace = ""
    /\ interfaceIndex = 0
    /\ selfPending = {}
    /\ peerPending = {}
    /\ parameter = ""
    /\ netnsID = 0
    /\ peerInterfaceName = ""
    /\ hostNS = HostNS
    /\ closureErr = NoErr
    /\ calls = <<>>
    /\ veCalls = <<>>
    /\ settings = EmptyMap
    /\ ret = "none"
    /\ err = NoErr
    /\ printed = <<>>
    /\ valid = NoValid

\* conf[n].IsValid() for one entry n
ConfigIsValidCall ==
    /\ pc = "valid_call"
    /\ \E n \in DOMAIN conf :
         valid' = [fn |-> "EthtoolConfig", arg |-> <<n>>,
                   out |-> EthtoolConfigIsValid(conf[n])]
    /\ pc' = "valid_done"
    /\ UNCHANGED <<inputs, locals, doVars, effects, curNS, ret, err, printed>>

\* conf.IsValid(), the map iterated in any order
ConfigsIsValidCall ==
    /\ pc = "valid_call"
    /\ \E order \in Orders(DOMAIN conf) :
         valid' = [fn |-> "EthtoolConfigs", arg |-> order,
                   out |-> EthtoolConfigsIsValid(conf, order)]
    /\ pc' = "valid_done"
    /\ UNCHANGED <<inputs, locals, doVars, effects, curNS, ret, err, printed>>

NextValid ==
    \/ ConfigIsValidCall
    \/ ConfigsIsValidCall

SpecValid == InitValid /\ [][NextValid]_vars

(***************************************************************************)
(* Properties of ExtractVeth (SpecVeth).                                   *)
(***************************************************************************)
Interfaces == prevResult.Interfaces

\* Record i of the interface list is a host-namespace entry whose live link
\* attributes resolve and carry both lookup keys.
MatchAt(i) ==
    /\ Interfaces[i].Sandbox = ""
    /\ <<HostNS, Interfaces[i].Name>> \in DOMAIN links
    /\ links[<<HostNS, Interfaces[i].Name>>].ParentIndex = interfaceIndex
    /\ links[<<HostNS, Interfaces[i].Name>>].NetNsID = netnsID

\* Record i is a host-namespace entry that LinkByName cannot resolve.
UnresolvedAt(i) ==
    /\ Interfaces[i].Sandbox = ""
    /\ <<HostNS, Interfaces[i].Name>> \notin DOMAIN links

\* C1: ExtractVeth returns a name only if that name is an entry of the
\* interface list with an empty sandbox whose live link attributes have
\* ParentIndex equal to peerInterfaceIndex and NetNsID equal to netnsID.
C1_ExtractVethSound ==
    (pc = "veth_done" /\ (err = NoErr \/ peerInterfaceName # ""))
        => \E i \in DOMAIN Interfaces :
              Interfaces[i].Name = peerInterfaceName /\ MatchAt(i)

\* C1 witness: a name was returned from a list that holds a sandboxed entry
\* and, before the match, a resolvable host entry with the same ParentIndex
\* but another NetNsID.
C1_Witness ==
    /\ pc = "veth_done"
    /\ err = NoErr
    /\ \E i, j, s \in DOMAIN Interfaces :
         /\ i < j
         /\ Interfaces[s].Sandbox # ""
         /\ Interfaces[i].Sandbox = ""
         /\ <<HostNS, Interfaces[i].Name>> \in DOMAIN links
         /\ links[<<HostNS, Interfaces[i].Name>>].ParentIndex = interfaceIndex
         /\ links[<<HostNS, Interfaces[i].Name>>].NetNsID # netnsID
         /\ MatchAt(j)
         /\ Interfaces[j].Name = peerInterfaceName

\* C7: when no resolvable host-namespace entry matches both keys, ExtractVeth
\* returns the empty name and an error that names both lookup keys.
C7_ExtractVethMiss ==
    (pc = "veth_done" /\ ~(\E i \in DOMAIN Interfaces : MatchAt(i)))
        => /\ peerInterfaceName = ""
           /\ err = [msg |-> "could not find veth peer", netnsID |-> netnsID,
                     peerInterfaceIndex |-> interfaceIndex]

\* C7 witness: a miss on a list that holds a resolvable host entry matching
\* one key only.
C7_Witness ==
    /\ pc = "veth_done"
    /\ err # NoErr
    /\ ~(\E i \in DOMAIN Interfaces : MatchAt(i))
    /\ \E i \in DOMAIN Interfaces :
         /\ Interfaces[i].Sandbox = ""
         /\ <<HostNS, Interfaces[i].Name>> \in DOMAIN links
         /\ links[<<HostNS, Interfaces[i].Name>>].NetNsID = netnsID

\* C8: if the list holds a resolvable host entry matching both keys, ExtractVeth
\* returns the name of a matching entry, whatever candidates fail to resolve.
C8_UnresolvableSkipped ==
    (pc = "veth_done" /\ (\E i \in DOMAIN Interfaces : MatchAt(i)))
        => /\ err = NoErr
           /\ \E i \in DOMAIN Interfaces :
                MatchAt(i) /\ Interfaces[i].Name = peerInterfaceName

\* C8 witness: a match returned with an unresolvable host candidate before it
\* and another one after it.
C8_Witness ==
    /\ pc = "veth_done"
    /\ err = NoErr
    /\ \E i, j, k \in DOMAIN Interfaces :
         /\ i < j /\ j < k
         /\ UnresolvedAt(i)
         /\ MatchAt(j) /\ Interfaces[j].Name = peerInterfaceName
         /\ UnresolvedAt(k)

(***************************************************************************)
(* Properties of cmdAdd (Spec).                                            *)
(***************************************************************************)
\* The positions of cmdAdd inside a netns.Do call.
InDo == {"index_closure", "index_exit", "self_closure", "self_exit"}

LastCall == calls[Len(calls)]

OnOff(b) == IF b THEN "on" ELSE "off"

\* The last four words of the command line of call c.
Tail4(c) == SubSeq(c.argv, Len(c.argv) - 3, Len(c.argv))

C3_FailFast ==
    \A i \in DOMAIN calls :
        calls[i].err # NoErr
            => /\ i = Len(calls)
               /\ pc \in {"self_exit", "done"}
               /\ pc = "done" => (ret = "error" /\ err = calls[i].err)

\* C3 witness: cmdAdd returned after a failed call while a parameter of the
\* same entry and another entry were still to be processed.
C3_Witness ==
    /\ pc = "done"
    /\ calls # <<>>
    /\ LastCall.err # NoErr
    /\ selfPending # {}
    /\ pending # {}

\* Call i applied self parameter p of entry n inside the sandbox of n.
SelfApplied(i, n, p) ==
    /\ calls[i].ran
    /\ calls[i].err = NoErr
    /\ calls[i].ns # HostNS
    /\ \E r \in Range(Interfaces) : r.Name = n /\ r.Sandbox = calls[i].ns
    /\ Tail4(calls[i]) = <<"-K", n, p, OnOff(conf[n][SelfClassifier][p])>>

\* h is the host-namespace end of the veth pair of interface n in sandbox sb.
IsPeerOf(h, n, sb) ==
    /\ <<HostNS, h>> \in DOMAIN links
    /\ <<sb, n>> \in DOMAIN links
    /\ links[<<HostNS, h>>].ParentIndex = links[<<sb, n>>].Index
    /\ links[<<HostNS, h>>].NetNsID = NetNsIdOf[sb]

\* Call i applied peer parameter p of entry n to the veth peer of n in the
\* host namespace.
PeerApplied(i, n, p) ==
    /\ calls[i].ran
    /\ calls[i].err = NoErr
    /\ calls[i].ns = HostNS
    /\ \E r, h \in Range(Interfaces) :
         /\ r.Name = n /\ r.Sandbox # ""
         /\ h.Sandbox = ""
         /\ IsPeerOf(h.Name, n, r.Sandbox)
         /\ Tail4(calls[i]) = <<"-K", h.Name, p, OnOff(conf[n][PeerClassifier][p])>>

\* C4: if cmdAdd succeeds, every self setting of every entry was applied
\* exactly once inside the namespace and every peer setting exactly once to
\* the correlated veth peer in the host namespace, true as on and false as
\* off, and nothing else was applied.
C4_SuccessPostcondition ==
    ret = "emitted"
        => /\ \A n \in DOMAIN conf :
                /\ \A p \in Keys(GetSelf(conf[n])) :
                     Cardinality({i \in DOMAIN calls : SelfApplied(i, n, p)}) = 1
                /\ \A p \in Keys(GetPeer(conf[n])) :
                     Cardinality({i \in DOMAIN calls : PeerApplied(i, n, p)}) = 1
           /\ \A i \in DOMAIN calls :
                \E n \in DOMAIN conf :
                    \/ \E p \in Keys(GetSelf(conf[n])) : SelfApplied(i, n, p)
                    \/ \E p \in Keys(GetPeer(conf[n])) : PeerApplied(i, n, p)
           /\ \A i \in DOMAIN calls :
                settings[<<calls[i].ns, calls[i].iface, calls[i].field>>]
                    = OnOff(calls[i].enable)

\* C4 witness: success with two entries, one of them with self and peer
\* settings.
C4_Witness ==
    /\ ret = "emitted"
    /\ Cardinality(DOMAIN conf) = 2
    /\ \E i, j \in DOMAIN calls :
         /\ calls[i].kind = "self" /\ calls[i].enable
         /\ calls[j].kind = "peer" /\ ~calls[j].enable

\* C5: every ethtool.Set call for a self setting runs inside the sandbox of the
\* configured interface and names that interface; every call for a peer
\* setting runs in the host namespace and names the interface ExtractVeth
\* returned for that entry.
C5_CallsInRightNamespace ==
    \A i \in DOMAIN calls :
        /\ calls[i].kind = "self"
             => /\ calls[i].iface = calls[i].entry
                /\ calls[i].entry \in DOMAIN conf
                /\ calls[i].ns # HostNS
                /\ \E r \in Range(Interfaces) :
                     r.Name = calls[i].entry /\ r.Sandbox = calls[i].ns
        /\ calls[i].kind = "peer"
             => /\ calls[i].ns = HostNS
                /\ \E j \in DOMAIN veCalls :
                     /\ veCalls[j].interfaceName = calls[i].entry
                     /\ veCalls[j].err = NoErr
                     /\ veCalls[j].name = calls[i].iface

\* C5 witness: an invocation that failed on a peer setting after it had
\* applied a self setting.
C5_Witness ==
    /\ pc = "done"
    /\ ret = "error"
    /\ calls # <<>>
    /\ LastCall.kind = "peer"
    /\ \E i \in DOMAIN calls : calls[i].kind = "self"

\* C6: every ExtractVeth call of cmdAdd is made from the host namespace, with
\* the netns id of the sandbox of the configured interface and with the index
\* that interface has inside that sandbox.
C6_ExtractVethArguments ==
    \A j \in DOMAIN veCalls :
        /\ veCalls[j].ns = HostNS
        /\ \E r \in Range(Interfaces) :
             /\ r.Name = veCalls[j].interfaceName
             /\ r.Sandbox # ""
             /\ veCalls[j].netnsID = NetNsIdOf[r.Sandbox]
             /\ <<r.Sandbox, r.Name>> \in DOMAIN links
             /\ veCalls[j].peerInterfaceIndex = links[<<r.Sandbox, r.Name>>].Index

\* C6 witness: ExtractVeth was called for an entry processed after another
\* entry whose namespace id and interface index both differ.
C6_Witness ==
    \E j \in DOMAIN veCalls, i \in DOMAIN calls :
        /\ calls[i].entry # veCalls[j].interfaceName
        /\ calls[i].kind = "self"
        /\ NetNsIdOf[calls[i].ns] # veCalls[j].netnsID
        /\ links[<<calls[i].ns, calls[i].entry>>].Index # veCalls[j].peerInterfaceIndex
        /\ \A k \in DOMAIN calls : calls[k].entry = veCalls[j].interfaceName => i < k

(***************************************************************************)
(* Properties of the configuration model (SpecValid).                      *)
(***************************************************************************)
\* C9: EthtoolConfig.IsValid returns true iff the key set of the config is
\* exactly {self} or exactly {self, peer}.
C9_ConfigValidIffKeys ==
    valid.fn = "EthtoolConfig"
        => (valid.out <=> DOMAIN conf[valid.arg[1]] \in
                {{SelfClassifier}, {SelfClassifier, PeerClassifier}})

\* C9 witness: a config with the self key and one other key was rejected.
C9_Witness ==
    /\ valid.fn = "EthtoolConfig"
    /\ DOMAIN conf[valid.arg[1]] = {SelfClassifier, "other"}
    /\ ~valid.out

\* C10: EthtoolConfigs.IsValid returns true iff every contained EthtoolConfig
\* is valid, in every order of iteration; no entries means valid.
C10_ConfigsValidIffAll ==
    valid.fn = "EthtoolConfigs"
        => (valid.out <=> \A n \in DOMAIN conf :
                DOMAIN conf[n] \in {{SelfClassifier}, {SelfClassifier, PeerClassifier}})

\* C10 witness: the loop visited a valid entry first and an invalid one
\* second, and the collection was rejected.
C10_Witness ==
    /\ valid.fn = "EthtoolConfigs"
    /\ Len(valid.arg) = 2
    /\ DOMAIN conf[valid.arg[1]] = {SelfClassifier}
    /\ DOMAIN conf[valid.arg[2]] = {PeerClassifier}
    /\ ~valid.out

\* C11: a valid EthtoolConfig has non-empty parameter maps: IsValid rejects a
\* config whose self map, or whose peer map, is empty.
C11_NonEmptyMaps ==
    (valid.fn = "EthtoolConfig" /\ valid.out)
        => \A k \in DOMAIN conf[valid.arg[1]] : DOMAIN conf[valid.arg[1]][k] # {}

(***************************************************************************)
(* Further properties of cmdAdd (Spec).                                    *)
(***************************************************************************)
ValidKeySets == {{SelfClassifier}, {SelfClassifier, PeerClassifier}}

\* The errors parseConfig returns.
ParseConfigMsgs ==
    { "failed to parse network configuration", "could not parse prevResult",
      "provided ethtool configuration is not valid" }

\* C12: if an entry of the configuration is invalid, cmdAdd fails in
\* parseConfig, before any namespace is opened or entered and before any
\* ethtool.Set call.
C12_InvalidConfigNoEffect ==
    (\E n \in DOMAIN conf : DOMAIN conf[n] \notin ValidKeySets)
        => /\ pc \in {"start", "done"}
           /\ pc = "done" => (ret = "error" /\ err.msg \in ParseConfigMsgs)
           /\ calls = <<>>
           /\ veCalls = <<>>
           /\ settings = EmptyMap
           /\ curNS = HostNS
           /\ namespace = "" /\ interfaceName = ""

\* C12 witness: cmdAdd returned the validation error for a configuration with
\* one valid entry, whose interface is in the previous result, and one
\* invalid entry.
C12_Witness ==
    /\ pc = "done"
    /\ err.msg = "provided ethtool configuration is not valid"
    /\ prevResult.present
    /\ \E n, m \in DOMAIN conf :
         /\ DOMAIN conf[n] \in ValidKeySets
         /\ DOMAIN conf[m] \notin ValidKeySets
         /\ \E r \in Range(Interfaces) : r.Name = n /\ r.Sandbox # ""

\* The error of FindExecutable for the ethtool command.
EthtoolNotFound == [msg |-> "could not find executable", name |-> "ethtool"]

\* The configuration has at least one setting.
HasSetting ==
    \E n \in DOMAIN conf : \E k \in DOMAIN conf[n] : DOMAIN conf[n][k] # {}

\* C13 as stated: with the ethtool executable in neither place, an invocation
\* whose (parsed, valid) configuration has at least one setting aborts with
\* the not-found error naming ethtool.
C13_AbortsWithNotFound ==
    (execAt = "none" /\ HasSetting /\ pc = "done" /\ err.msg \notin ParseConfigMsgs)
        => (ret = "error" /\ err = EthtoolNotFound)

\* C13 amended: with the ethtool executable in neither place, the command is
\* never executed, no setting changes, an invocation whose configuration has
\* a setting never succeeds, and an invocation that gets as far as its first
\* ethtool.Set call aborts there with the not-found error naming ethtool.
C13_MissingTool ==
    execAt = "none"
        => /\ \A i \in DOMAIN calls :
                ~calls[i].ran /\ calls[i].err = EthtoolNotFound
           /\ settings = EmptyMap
           /\ HasSetting => ret # "emitted"
           /\ (pc = "done" /\ calls # <<>>)
                => (ret = "error" /\ err = EthtoolNotFound /\ Len(calls) = 1)

\* C13 witness: the invocation reached its first ethtool.Set call without the
\* executable and aborted.
C13_Witness ==
    /\ execAt = "none"
    /\ pc = "done"
    /\ Len(calls) = 1
    /\ err = EthtoolNotFound
    /\ curNS = HostNS

(***************************************************************************)
(* SpecSet: helpers.FindExecutable and ethtool.Set, called once for one    *)
(* interface, field and value, in every placement of the executable.       *)
(***************************************************************************)
ExecPlaces == {"local", "both", "host", "none"}

\* One entry with one self parameter: the arguments iface, field, enable.
SetConfs ==
    { (n :> (SelfClassifier :> (p :> b))) :
        n \in {"eth0", "vethA"}, p \in {Tx, Rx}, b \in BOOLEAN }

InitSet ==
    /\ conf \in SetConfs
    /\ prevResult = [present |-> FALSE, Interfaces |-> <<>>]
    /\ links \in Worlds
    /\ execAt \in ExecPlaces
    /\ curNS \in {HostNS, Ns1}
    /\ pc = "find_call"
    /\ pending = {}
    /\ interfaceName \in DOMAIN conf
    /\ namespace = ""
    /\ interfaceIndex = 0
    /\ selfPending = {}
    /\ peerPending = {}
    /\ parameter \in DOMAIN GetSelf(conf[interfaceName])
    /\ netnsID = 0
    /\ peerInterfaceName = ""
    /\ hostNS = HostNS
    /\ closureErr = NoErr
    /\ calls = <<>>
    /\ veCalls = <<>>
    /\ settings = EmptyMap
    /\ ret = "none"
    /\ err = NoErr
    /\ printed = <<>>
    /\ valid = NoValid

\* helpers.FindExecutable("ethtool")
FindExecutableCall ==
    /\ pc = "find_call"
    /\ valid' = [fn |-> "FindExecutable", arg |-> <<"ethtool">>,
                 out |-> FindExecutable("ethtool", execAt)]
    /\ pc' = "set_call"
    /\ UNCHANGED <<inputs, locals, doVars, effects, curNS, ret, err, printed>>

\* ethtool.Set(iface, field, enable); ret is the exit status of the command,
\* err the error Set returned.
EthtoolSetCall ==
    /\ pc = "set_call"
    /\ \E cmdOk \in BOOLEAN :
         LET enable == GetSelf(conf[interfaceName])[parameter]
             r == Set(interfaceName, parameter, enable, execAt, cmdOk)
         IN
         /\ DoSet("self", interfaceName, parameter, enable, cmdOk)
         /\ valid' = [fn |-> "Set",
                      arg |-> <<interfaceName, parameter, enable>>, out |-> r]
         /\ ret' = IF cmdOk THEN "exit 0" ELSE "exit 1"
         /\ err' = r.err
    /\ pc' = "set_done"
    /\ UNCHANGED <<inputs, locals, doVars, veCalls, curNS, printed>>

NextSet ==
    \/ FindExecutableCall
    \/ EthtoolSetCall

SpecSet == InitSet /\ [][NextSet]_vars

\* C14: FindExecutable returns [path] whenever the command is found locally
\* (also when it is under /host too), [chroot, /host, path] exactly when it is
\* found under /host only, and an error naming the command exactly when it is
\* found in neither place.
C14_FindExecutable ==
    valid.fn = "FindExecutable"
        => /\ execAt \in {"local", "both"}
                => (valid.out.bin = <<EthtoolPath>> /\ valid.out.err = NoErr)
           /\ (valid.out.bin = <<"chroot", "/host", EthtoolPath>>
                    /\ valid.out.err = NoErr)
                <=> execAt = "host"
           /\ valid.out.err # NoErr <=> execAt = "none"
           /\ valid.out.err # NoErr
                => /\ valid.out.err.msg = "could not find executable"
                   /\ valid.out.err.name = valid.arg[1]

\* C14 witness: the command is in both places and the bare path was returned.
C14_Witness ==
    /\ valid.fn = "FindExecutable"
    /\ execAt = "both"
    /\ valid.out = [bin |-> <<EthtoolPath>>, err |-> NoErr]

\* C15: Set(iface, field, enable) runs the ethtool command with exactly the
\* arguments -K, iface, field and "on" (enable) or "off" (not enable), and
\* returns the error of the command unchanged.
C15_SetArguments ==
    (pc = "set_done" /\ valid.fn = "Set")
        => /\ Len(calls) = 1
           /\ valid.out.ran <=> execAt # "none"
           /\ valid.out.ran
                => /\ valid.out.argv
                        = FindExecutable("ethtool", execAt).bin
                            \o << "-K", valid.arg[1], valid.arg[2],
                                  OnOff(valid.arg[3]) >>
                   /\ valid.out.err = NoErr <=> ret = "exit 0"
                   /\ valid.out.err # NoErr => valid.out.err.msg = "exit status 1"
           /\ ~valid.out.ran => valid.out.err = EthtoolNotFound
           /\ err = valid.out.err
           /\ calls[1].argv = valid.out.argv

\* C15 witness: Set ran the command through chroot to disable a field and
\* returned the failure of the command.
C15_Witness ==
    /\ pc = "set_done"
    /\ valid.fn = "Set"
    /\ valid.out.ran
    /\ execAt = "host"
    /\ ~valid.arg[3]
    /\ Tail4(valid.out) = <<"-K", interfaceName, parameter, "off">>
    /\ err # NoErr

\* The setting call c is about: namespace, interface, field.
SettingOf(c) == <<c.ns, c.iface, c.field>>

\* C16: no rollback: every setting applied successfully in the invocation
\* keeps its new value, also after the invocation aborted on a later error,
\* and cmdAdd issues no second call on a setting it has applied.
C16_NoRollback ==
    /\ \A i \in DOMAIN calls :
         calls[i].err = NoErr
            => /\ SettingOf(calls[i]) \in DOMAIN settings
               /\ settings[SettingOf(calls[i])] = OnOff(calls[i].enable)
    /\ \A i, j \in DOMAIN calls :
         SettingOf(calls[i]) = SettingOf(calls[j]) => i = j

\* C16 witness: the invocation aborted on a failed call after it had applied
\* a setting of an earlier entry and a setting of the same entry.
C16_Witness ==
    /\ pc = "done"
    /\ ret = "error"
    /\ Len(calls) >= 3
    /\ LastCall.err # NoErr
    /\ calls[1].err = NoErr
    /\ calls[1].entry # LastCall.entry
    /\ calls[Len(calls) - 1].err = NoErr
    /\ calls[Len(calls) - 1].entry = LastCall.entry
    /\ settings[SettingOf(calls[1])] = OnOff(calls[1].enable)

\* C17: for an entry with peer settings the veth peer is correlated before the
\* first setting of the entry is applied, so an entry whose peer cannot be
\* resolved has none of its self settings applied.
C17_PeerResolvedFirst ==
    /\ \A i \in DOMAIN calls :
         GetPeer(conf[calls[i].entry]) # Nil
            => \E j \in DOMAIN veCalls :
                 /\ veCalls[j].interfaceName = calls[i].entry
                 /\ veCalls[j].err = NoErr
    /\ (pc = "done" /\ err.msg = "could not find veth peer for interface")
         => \A i \in DOMAIN calls :
              calls[i].entry = interfaceName => calls[i].err # NoErr

\* The errors of the veth peer correlation in cmdAdd.
CorrelationMsgs ==
    { "could not find namespace id for netns",
      "could not find veth peer for interface" }

\* C18: FindNetNSID and ExtractVeth are called for an entry only if the entry
\* has peer settings; an entry with only a self map never fails on the
\* correlation.  (A FindNetNSID call either fails the invocation with its
\* error or is followed at once by the recorded ExtractVeth call.)
C18_CorrelationOnlyWithPeer ==
    /\ \A j \in DOMAIN veCalls :
         GetPeer(conf[veCalls[j].interfaceName]) # Nil
    /\ (pc = "done" /\ err.msg \in CorrelationMsgs)
         => GetPeer(conf[interfaceName]) # Nil

\* C18 witness: an invocation with self-only entries succeeded although the
\* previous result has no host interface at all, and no correlation was made.
C18_Witness ==
    /\ ret = "emitted"
    /\ calls # <<>>
    /\ veCalls = <<>>
    /\ \A n \in DOMAIN conf : GetPeer(conf[n]) = Nil
    /\ \A r \in Range(Interfaces) : r.Sandbox # ""

\* The names of the records that match both keys.
MatchingNames == {Interfaces[i].Name : i \in {j \in DOMAIN Interfaces : MatchAt(j)}}

\* C19 as stated: for fixed records and live link attributes, ExtractVeth
\* returns the same name or error for every permutation of the interface list.
C19_OrderInsignificant ==
    valid.fn = "ExtractVeth"
        => valid.out = [name |-> peerInterfaceName, err |-> err]

\* C19 amended: when the records matching both keys carry at most one name,
\* ExtractVeth returns the same name or error for every permutation of the
\* interface list.
C19_OrderInsignificantOneName ==
    (valid.fn = "ExtractVeth" /\ Cardinality(MatchingNames) <= 1)
        => valid.out = [name |-> peerInterfaceName, err |-> err]

\* C19 witness: the same name was returned for a list with the matching record
\* first and for a permutation with it last, behind a resolvable host record
\* that does not match.
C19_Witness ==
    /\ valid.fn = "ExtractVeth"
    /\ err = NoErr
    /\ valid.out.name = peerInterfaceName
    /\ Len(Interfaces) = 3
    /\ MatchAt(1) /\ ~MatchAt(2) /\ ~MatchAt(3)
    /\ valid.arg[3] = Interfaces[1]
    /\ \E i \in 2..3 :
         /\ Interfaces[i].Sandbox = ""
         /\ <<HostNS, Interfaces[i].Name>> \in DOMAIN links

\* Every setting of entry n was applied by a call made for n.
EntryProcessed(n) ==
    /\ \A p \in Keys(GetSelf(conf[n])) :
         \E i \in DOMAIN calls :
            /\ calls[i].entry = n /\ calls[i].kind = "self"
            /\ calls[i].field = p /\ calls[i].err = NoErr
    /\ \A p \in Keys(GetPeer(conf[n])) :
         \E i \in DOMAIN calls :
            /\ calls[i].entry = n /\ calls[i].kind = "peer"
            /\ calls[i].field = p /\ calls[i].err = NoErr

\* The errors cmdAdd returns before it reaches the loop over the entries.
PreLoopMsgs ==
    ParseConfigMsgs \cup { "could not write to file",
                           "must be called as chained plugin",
                           "failed to convert prevResult" }

\* cmdAdd reached the loop and every configured entry was processed without
\* error.
AllProcessed ==
    /\ err.msg \notin PreLoopMsgs
    /\ pending = {}
    /\ \A n \in DOMAIN conf : EntryProcessed(n)
    /\ \A i \in DOMAIN calls : calls[i].err = NoErr
    /\ \A j \in DOMAIN veCalls : veCalls[j].err = NoErr

\* C20 as stated: cmdAdd emits a result if and only if every configured entry
\* was processed without error, the emitted result is the received prevResult,
\* and on an error nothing is emitted.
C20_EmitsIffProcessed ==
    /\ ret = "emitted" => (pc = "done" /\ AllProcessed /\ printed = prevResult)
    /\ ret # "emitted" => printed = <<>>
    /\ (pc = "done" /\ AllProcessed) => ret = "emitted"

\* C20 amended: cmdAdd emits a result only if every configured entry was
\* processed without error, and then it does unless types.PrintResult itself
\* fails; the emitted result is the received prevResult; on an error nothing
\* is emitted.
C20_PassThrough ==
    /\ ret = "emitted"
         => (pc = "done" /\ AllProcessed /\ err = NoErr /\ printed = prevResult)
    /\ ret # "emitted" => printed = <<>>
    /\ (pc = "done" /\ AllProcessed /\ err.msg # "failed to print result")
         => ret = "emitted"

\* C20 witness: a result was emitted after an entry with self and peer
\* settings was processed, and it is the previous result with its sandboxed
\* record and its host record.
C20_Witness ==
    /\ ret = "emitted"
    /\ printed = prevResult
    /\ \E n \in DOMAIN conf : GetPeer(conf[n]) # Nil
    /\ \E i, j \in DOMAIN calls : calls[i].kind = "self" /\ calls[j].kind = "peer"
    /\ \E i, j \in DOMAIN printed.Interfaces :
         printed.Interfaces[i].Sandbox # "" /\ printed.Interfaces[j].Sandbox = ""

(***************************************************************************)
(* What an invocation is to apply, as a function of its inputs alone.      *)
(***************************************************************************)
\* The sandbox of configured interface n.
SandboxOf(n) == ExtractInterfaceNamespace(Interfaces, n).namespace

\* The host end of the veth pair of configured interface n.
PeerOf(n) ==
    ExtractVeth(links, HostNS, Interfaces, NetNsIdOf[SandboxOf(n)],
                GetInterfaceIndex(links, SandboxOf(n), n).index).name

\* The (setting, value) pairs the configuration asks for.
ExpectedSettings ==
    UNION { { <<<<SandboxOf(n), n, p>>, OnOff(GetSelf(conf[n])[p])>> :
                p \in Keys(GetSelf(conf[n])) }
            \cup
            { <<<<HostNS, PeerOf(n), p>>, OnOff(GetPeer(conf[n])[p])>> :
                p \in Keys(GetPeer(conf[n])) }
          : n \in DOMAIN conf }

\* The (setting, value) pairs in force, and those of the calls made.
AppliedSettings == {<<k, settings[k]>> : k \in DOMAIN settings}

CalledSettings ==
    {<<SettingOf(calls[i]), OnOff(calls[i].enable)>> : i \in DOMAIN calls}

\* C21: when the invocation succeeds, the settings applied and the final state
\* of the interfaces are the ones the configuration and the attachment result
\* determine, whatever the order in which the entries and the parameters of an
\* entry were iterated.
C21_OrderIndependent ==
    ret = "emitted"
        => /\ AppliedSettings = ExpectedSettings
           /\ CalledSettings = ExpectedSettings

\* C21 witness: a successful invocation of two entries that took the second
\* name first and, in the entry with two self parameters, the second
\* parameter first.
C21_Witness ==
    /\ ret = "emitted"
    /\ DOMAIN conf = {"eth0", "eth1"}
    /\ calls[1].entry = "eth1"
    /\ \E i, j \in DOMAIN calls :
         /\ i < j
         /\ calls[i].entry = calls[j].entry /\ calls[i].kind = "self"
         /\ calls[i].field = Rx /\ calls[j].field = Tx /\ calls[j].kind = "self"
    /\ \E i \in DOMAIN calls : calls[i].kind = "peer"
    /\ AppliedSettings = ExpectedSettings

(***************************************************************************)
(* SpecRetry: an invocation and, after it aborted, one more invocation     *)
(* with the same configuration and attachment result.                      *)
(***************************************************************************)
\* Valid configurations of one or two entries.
RetryConfs ==
    UNION { [D -> {c \in ConfigChoices : EthtoolConfigIsValid(c)}] :
              D \in (SUBSET {"eth0", "eth1"}) \ {{}} }

\* Attachment results with both pods, and with the host end of the second
\* pod left out.
RetryResults ==
    { [present |-> TRUE,
       Interfaces |-> <<Intf("eth0", Ns1), Intf("vethA", ""),
                        Intf("eth1", Ns2), Intf("vethB", "")>>],
      [present |-> TRUE,
       Interfaces |-> <<Intf("eth1", Ns2), Intf("eth0", Ns1), Intf("vethA", "")>>] }

InitRetry ==
    /\ conf \in RetryConfs
    /\ prevResult \in RetryResults
    /\ links \in Worlds
    /\ execAt \in {"local", "none"}
    /\ curNS = HostNS
    /\ pc = "start"
    /\ pending = {}
    /\ interfaceName = ""
    /\ namespace = ""
    /\ interfaceIndex = 0
    /\ selfPending = {}
    /\ peerPending = {}
    /\ parameter = ""
    /\ netnsID = 0
    /\ peerInterfaceName = ""
    /\ hostNS = HostNS
    /\ closureErr = NoErr
    /\ calls = <<>>
    /\ veCalls = <<>>
    /\ settings = EmptyMap
    /\ ret = "none"
    /\ err = NoErr
    /\ printed = <<>>
    /\ valid = NoValid

\* The kernel states after a missing link has come back.
Repaired(k) ==
    IF k = Without(BaseLinks, {<<Ns1, "eth0">>}) THEN {k, BaseLinks} ELSE {k}

\* cmdAdd is invoked again after it returned an error: same configuration and
\* attachment result, the interface settings as the first invocation left
\* them, the executable and the links possibly back.  valid keeps the
\* settings and the error of the first invocation.
Retry ==
    /\ pc = "done"
    /\ ret = "error"
    /\ valid = NoValid
    /\ valid' = [fn |-> "cmdAdd", arg |-> <<settings>>, out |-> err]
    /\ execAt' \in {execAt, "local"}
    /\ links' \in Repaired(links)
    /\ pc' = "start"
    /\ pending' = {}
    /\ interfaceName' = ""
    /\ namespace' = ""
    /\ interfaceIndex' = 0
    /\ selfPending' = {}
    /\ peerPending' = {}
    /\ parameter' = ""
    /\ netnsID' = 0
    /\ peerInterfaceName' = ""
    /\ hostNS' = HostNS
    /\ closureErr' = NoErr
    /\ calls' = <<>>
    /\ veCalls' = <<>>
    /\ ret' = "none"
    /\ err' = NoErr
    /\ UNCHANGED <<conf, prevResult, curNS, settings, printed>>

NextRetry ==
    \/ Next
    \/ Retry

SpecRetry == InitRetry /\ [][NextRetry]_vars

\* C22: in an invocation re-run after an abort, a setting the first invocation
\* applied keeps its value (re-applying it changes nothing), and when the
\* re-run succeeds the interface settings are those of a single successful
\* invocation from the initial state.
C22_RetryConverges ==
    valid.fn = "cmdAdd"
        => /\ \A k \in DOMAIN valid.arg[1] :
                k \in DOMAIN settings /\ settings[k] = valid.arg[1][k]
           /\ ret = "emitted" => AppliedSettings = ExpectedSettings

\* C22 witness: the first invocation aborted on a failed command with some
\* settings applied and others not, and the re-run succeeded and applied an
\* already applied setting again.
C22_Witness ==
    /\ valid.fn = "cmdAdd"
    /\ valid.out.msg = "exit status 1"
    /\ valid.arg[1] # EmptyMap
    /\ ret = "emitted"
    /\ DOMAIN valid.arg[1] # DOMAIN settings
    /\ \E i \in DOMAIN calls :
         calls[i].err = NoErr /\ SettingOf(calls[i]) \in DOMAIN valid.arg[1]

\* C23: when validation fails (of a configuration that also has a valid
\* entry), the error of parseConfig identifies the offending interface entry,
\* the one whose EthtoolConfig is invalid.
C23_NamesOffendingEntry ==
    (/\ pc = "done"
     /\ err.msg = "provided ethtool configuration is not valid"
     /\ \E n \in DOMAIN conf : EthtoolConfigIsValid(conf[n]))
        => /\ "interfaceName" \in DOMAIN err
           /\ err.interfaceName \in DOMAIN conf
           /\ ~EthtoolConfigIsValid(conf[err.interfaceName])

\* Error e names the interface, the namespace path, a parameter.
CarriesInterface(e) ==
    \/ "interfaceName" \in DOMAIN e /\ e.interfaceName = interfaceName
    \/ "name" \in DOMAIN e /\ e.name \in {interfaceName, peerInterfaceName}

CarriesNamespace(e) == "namespace" \in DOMAIN e /\ e.namespace = namespace

CarriesParameter(e) == "parameter" \in DOMAIN e /\ e.parameter = parameter

\* The errors of the index lookup and of ethtool.Set, as cmdAdd returns them.
StepMsgs == {"Link not found", "exit status 1", "could not find executable"}

\* C24: an error cmdAdd returns from the interface-index lookup or from a
\* failed ethtool.Set call carries the interface name and the namespace path
\* and, for a failed setting, the parameter name.
C24_ErrorsCarryContext ==
    (pc = "done" /\ ret = "error" /\ err.msg \in StepMsgs)
        => /\ CarriesInterface(err)
           /\ CarriesNamespace(err)
           /\ err.msg # "Link not found" => CarriesParameter(err)

\* C25 as stated: with an empty ethtool configuration and a present prevResult
\* cmdAdd enters no namespace, makes no lookup and no ethtool.Set call, and
\* succeeds by passing the prevResult through.
C25_EmptyConfigSucceeds ==
    (conf = EmptyMap /\ prevResult.present)
        => /\ calls = <<>> /\ veCalls = <<>> /\ curNS = HostNS
           /\ (pc = "done" /\ err.msg \notin ParseConfigMsgs)
                => (ret = "emitted" /\ printed = prevResult)

\* C25 amended: an empty ethtool configuration is valid and a no-op: cmdAdd
\* enters no namespace, makes no lookup and no ethtool.Set call, and, given a
\* present prevResult, succeeds by passing it through unless the logger setup,
\* the conversion of prevResult or PrintResult fails.
C25_EmptyConfigNoOp ==
    conf = EmptyMap
        => /\ pc \in {"start", "logger", "chained", "loop", "done"}
           /\ calls = <<>> /\ veCalls = <<>> /\ settings = EmptyMap
           /\ curNS = HostNS
           /\ interfaceName = "" /\ namespace = "" /\ interfaceIndex = 0
           /\ err.msg # "provided ethtool configuration is not valid"
           /\ (/\ pc = "done" /\ prevResult.present
               /\ err.msg \notin PreLoopMsgs \cup {"failed to print result"})
                => (ret = "emitted" /\ printed = prevResult)

\* C25 witness: an invocation without entries passed a previous result of
\* several records through.
C25_Witness ==
    /\ conf = EmptyMap
    /\ ret = "emitted"
    /\ printed = prevResult
    /\ Len(Interfaces) >= 2
    /\ calls = <<>>

\* The positions of the records that match both keys, and the first of them.
MatchingPositions == {i \in DOMAIN Interfaces : MatchAt(i)}

FirstMatch == CHOOSE i \in MatchingPositions : \A j \in MatchingPositions : i <= j

\* C26: when more than one host-namespace record matches both keys,
\* ExtractVeth fails with its not-found error or returns the first matching
\* record in list order, never a later match.
C26_MultipleMatches ==
    (pc # "veth_call" /\ Cardinality(MatchingPositions) > 1)
        => \/ /\ peerInterfaceName = ""
              /\ err.msg = "could not find veth peer"
           \/ /\ err = NoErr
              /\ peerInterfaceName = Interfaces[FirstMatch].Name

\* C26 witness: two records of different names match, behind a sandboxed
\* record, and the first of the two was returned.
C26_Witness ==
    /\ pc = "veth_done"
    /\ Cardinality(MatchingNames) = 2
    /\ FirstMatch > 1
    /\ err = NoErr
    /\ peerInterfaceName = Interfaces[FirstMatch].Name
    /\ \E j \in MatchingPositions : Interfaces[j].Name # peerInterfaceName

\* C27: ExtractInterfaceNamespace returns the sandbox of the sandboxed record
\* of the given name whenever the attachment result has one, also when a
\* host-namespace record of the same name is in the list, at any position.
C27_SandboxedRecordFound ==
    (/\ interfaceName # ""
     /\ \E i \in DOMAIN Interfaces :
          Interfaces[i].Name = interfaceName /\ Interfaces[i].Sandbox # "")
        => /\ \E i \in DOMAIN Interfaces :
                /\ Interfaces[i].Name = interfaceName
                /\ Interfaces[i].Sandbox # ""
                /\ namespace = Interfaces[i].Sandbox
           /\ err.msg # "expected interface to be inside a namespace"

\* The errors of resolving an entry: name not in the attachment result,
\* record without sandbox, sandbox not opened, index lookup failed.
ResolutionMsgs ==
    { "could not find namespaced interface",
      "expected interface to be inside a namespace",
      "failed to Statfs", "Link not found" }

\* C28: when the resolution of an entry fails, cmdAdd returns an error and no
\* ethtool.Set call is made for that entry or for an entry not yet processed;
\* every ethtool.Set call is for an entry whose sandbox and link resolve.
C28_ResolutionFailureNoSetting ==
    /\ (pc = "done" /\ err.msg \in ResolutionMsgs)
         => /\ ret = "error"
            /\ \A i \in DOMAIN calls :
                 /\ calls[i].entry # interfaceName
                 /\ calls[i].entry \notin pending
                 /\ calls[i].err = NoErr
    /\ \A i \in DOMAIN calls :
         /\ ExtractInterfaceNamespace(Interfaces, calls[i].entry).err = NoErr
         /\ HasLink(links, SandboxOf(calls[i].entry), calls[i].entry)

\* C28 witness: the index lookup of an entry failed after another entry had
\* been applied, with no call for the failing entry.
C28_Witness ==
    /\ pc = "done"
    /\ err.msg = "Link not found"
    /\ calls # <<>>
    /\ \A i \in DOMAIN calls : calls[i].entry # interfaceName
    /\ Keys(GetSelf(conf[interfaceName])) # {}

\* C29 as stated: without a previous result cmdAdd fails with "must be called
\* as chained plugin", before entering a namespace and before any ethtool.Set
\* call, whatever the ethtool configuration is (the request itself parses).
C29_FailsAsNotChained ==
    (~prevResult.present /\ pc = "done"
       /\ err.msg \notin {"failed to parse network configuration",
                          "could not parse prevResult"})
        => /\ ret = "error"
           /\ err.msg = "must be called as chained plugin"
           /\ calls = <<>> /\ curNS = HostNS

\* C29 amended: without a previous result cmdAdd fails before entering a
\* namespace and before any ethtool.Set call, whatever the configuration;
\* the error is "must be called as chained plugin" unless parseConfig (an
\* invalid configuration among its causes) or the logger setup failed first.
C29_ChainedRequired ==
    ~prevResult.present
        => /\ pc \in {"start", "logger", "chained", "done"}
           /\ calls = <<>> /\ veCalls = <<>> /\ settings = EmptyMap
           /\ curNS = HostNS /\ interfaceName = ""
           /\ ret # "emitted"
           /\ pc = "done"
                => /\ ret = "error"
                   /\ \/ err.msg = "must be called as chained plugin"
                      \/ err.msg \in ParseConfigMsgs
                      \/ err.msg = "could not write to file"

\* C29 witness: an invocation with a valid configuration of two entries and no
\* previous result returned the chained-plugin error.
C29_Witness ==
    /\ ~prevResult.present
    /\ pc = "done"
    /\ err.msg = "must be called as chained plugin"
    /\ Cardinality(DOMAIN conf) = 2
    /\ \E n \in DOMAIN conf : GetPeer(conf[n]) # Nil

(***************************************************************************)
(* SpecLive: one invocation of cmdAdd in which every external call         *)
(* returns, so that the sequential program always takes its next step.     *)
(***************************************************************************)
\* Configurations of up to two entries, invalid ones included.
LiveConfs == UNION {[D -> ConfigChoices] : D \in SUBSET {"eth0", "eth1"}}

LiveResults == RetryResults \cup {[present |-> FALSE, Interfaces |-> <<>>]}

InitLive ==
    /\ conf \in LiveConfs
    /\ prevResult \in LiveResults
    /\ links \in Worlds
    /\ execAt \in {"local", "none"}
    /\ curNS = HostNS
    /\ pc = "start"
    /\ pending = {}
    /\ interfaceName = ""
    /\ namespace = ""
    /\ interfaceIndex = 0
    /\ selfPending = {}
    /\ peerPending = {}
    /\ parameter = ""
    /\ netnsID = 0
    /\ peerInterfaceName = ""
    /\ hostNS = HostNS
    /\ closureErr = NoErr
    /\ calls = <<>>
    /\ veCalls = <<>>
    /\ settings = EmptyMap
    /\ ret = "none"
    /\ err = NoErr
    /\ printed = <<>>
    /\ valid = NoValid

SpecLive == InitLive /\ [][Next]_vars /\ WF_vars(Next)

\* The configured triple call c is for: interface entry, self or peer, parameter.
TripleOf(c) == <<c.entry, c.kind, c.field>>

\* The configured triples.
Triples ==
    UNION { UNION { { <<n, k, p>> : p \in Keys(conf[n][k]) } :
                      k \in {SelfClassifier, PeerClassifier} \cap DOMAIN conf[n] } :
              n \in DOMAIN conf }

\* C30: every invocation of cmdAdd terminates in exactly one of the outcomes
\* "error returned" and "result emitted", which is final, after at most one
\* apply call per configured (interface, self/peer, parameter) triple.
C30_Terminates ==
    /\ <>(pc = "done")
    /\ [](pc = "done" <=> ret \in {"error", "emitted"})
    /\ [][pc = "done" => (pc' = "done" /\ ret' = ret)]_vars
    /\ [](/\ \A i \in DOMAIN calls : TripleOf(calls[i]) \in Triples
          /\ \A i, j \in DOMAIN calls :
                TripleOf(calls[i]) = TripleOf(calls[j]) => i = j)

\* C30 witness: an invocation of two entries ended with a result emitted after
\* one call for each of its five triples.
C30_Witness ==
    /\ pc = "done"
    /\ ret = "emitted"
    /\ Cardinality(Triples) = 5
    /\ Len(calls) = 5

====
